---- MODULE Spec2Model ----
(***************************************************************************)
(* One-way folder synchronisation (File_Sync).  Two programs are modelled: *)
(* the extended variant (GUI/file_sync_extended.py: plan a task list, copy *)
(* it sequentially or on a process pool, then clean the replica) and the   *)
(* simple variant (Simple/file_sync_simple.py: copy inline while walking   *)
(* the source, then clean the replica).                                    *)
(*                                                                         *)
(* A directory tree is a function from the relative paths of a small       *)
(* universe to entries.  A path is a sequence of names; <<>> is the root.  *)
(***************************************************************************)
EXTENDS Integers, Sequences, FiniteSets, TLC

\* ------------------------------------------------------------------ bounds
MaxContent == 3     \* file contents are 1..MaxContent
MaxMtime   == 2     \* replica modification times are 1..MaxMtime
MaxPasses  == 2     \* passes of the periodic loop that are explored
MaxProcnum == 2     \* largest --procnum explored
MaxFaults  == 4     \* copy attempts the environment disturbs in one run
MaxInterval == 2    \* largest -i interval given on the command line

\* ------------------------------------------------------- file-system model
\* The path universe, listed in the order a directory listing returns it.
AllPaths == << <<"a">>, <<"a", "a">>, <<"a", "b">>, <<"a", "b", "b">> >>
Paths    == {AllPaths[i] : i \in 1..Len(AllPaths)}

Parent(p)   == SubSeq(p, 1, Len(p) - 1)
basename(p) == p[Len(p)]
join(p, n)  == Append(p, n)
IsPrefix(p, q) == Len(p) <= Len(q) /\ SubSeq(q, 1, Len(p)) = p

\* Paths that have children in the universe; the others can only be files.
DirPaths == {p \in Paths : \E q \in Paths : Parent(q) = p}

Contents == 1..MaxContent
Mtimes   == 1..MaxMtime
\* st_size of a file: contents 1,2 have size 1, contents 3,4 size 2, ...
Size(c)  == (c + 1) \div 2

None       == [kind |-> "none", content |-> 0, mtime |-> 0]
Dir        == [kind |-> "dir",  content |-> 0, mtime |-> 0]
File(c, m) == [kind |-> "file", content |-> c, mtime |-> m]

\* Source files carry the first modification time, and every file name has
\* its own content, one of each size class: every comparison the programs
\* make is between a source file and its own mirror, so only the replica
\* side has to vary against it.  A replica file has any content at the first
\* modification time (the same, another of the same size, one of another
\* size), or content 1 at a later time (the same content with another time).
SrcContent(p) == IF basename(p) = "a" THEN 1 ELSE 3
SrcEntries == {None, Dir} \cup {File(SrcContent(p), 1) : p \in Paths}
RepEntries == {None, Dir} \cup {File(c, 1) : c \in Contents}
                         \cup {File(1, m) : m \in Mtimes}

Kind(fs, p) == IF p = <<>> THEN "dir"
               ELSE IF p \in Paths THEN fs[p].kind ELSE "none"

WellFormed(fs) ==
    \A p \in Paths :
        /\ fs[p].kind # "none" => Kind(fs, Parent(p)) = "dir"
        /\ fs[p].kind = "dir" => p \in DirPaths

Trees(E) == {fs \in [Paths -> E] : WellFormed(fs)}
\* The source trees: every file holds the content of its name.
SrcTrees == {fs \in Trees(SrcEntries) :
                \A p \in Paths : fs[p].kind = "file" =>
                                     fs[p].content = SrcContent(p)}

exists(fs, p) == Kind(fs, p) # "none"
isdir(fs, p)  == Kind(fs, p) = "dir"

\* os.stat: size and modification time.  A directory has both as well; they
\* are those of a file of content 1 written at time 1, so that a directory
\* looks like some of the files it is compared with and unlike others.
stat(fs, p) == IF Kind(fs, p) = "file"
               THEN [st_size |-> Size(fs[p].content), st_mtime |-> fs[p].mtime]
               ELSE [st_size |-> Size(1), st_mtime |-> 1]

\* The 64-bit digest of a content, injective on the contents modelled.
xxh64(c) == (c * 31 + 17) % 4096
\* calculate_xxhash opens the path as a file: it raises on anything else.
can_hash(fs, p) == Kind(fs, p) = "file"
calculate_xxhash(fs, p) == xxh64(fs[p].content)

\* os.scandir: the entries of a directory, in listing order.
scandir(fs, top) ==
    SelectSeq(AllPaths, LAMBDA q : Parent(q) = top /\ fs[q].kind # "none")

\* os.walk over a tree that is not modified under the walker: one frame per
\* directory, parents first (topdown) or children first.
RECURSIVE walk(_, _, _), walk_dirs(_, _, _)
walk(fs, top, topdown) ==
    LET entries == scandir(fs, top)
        dirs    == SelectSeq(entries, LAMBDA q : fs[q].kind = "dir")
        nondirs == SelectSeq(entries, LAMBDA q : fs[q].kind = "file")
        frame   == << [root |-> top, dirs |-> dirs, files |-> nondirs] >>
        sub     == walk_dirs(fs, dirs, topdown)
    IN  IF topdown THEN frame \o sub ELSE sub \o frame
walk_dirs(fs, ds, topdown) ==
    IF ds = <<>> THEN <<>>
    ELSE walk(fs, Head(ds), topdown) \o walk_dirs(fs, Tail(ds), topdown)

\* os.makedirs(name): create the missing ancestors, then the directory;
\* mkdir raises when the parent is not a directory or the name exists.
RECURSIVE makedirs(_, _)
makedirs(fs, name) ==
    LET head == Parent(name)
        pre  == IF head # <<>> /\ ~exists(fs, head)
                THEN makedirs(fs, head)
                ELSE [fs |-> fs, raised |-> FALSE]
    IN  IF pre.raised THEN pre
        ELSE IF isdir(pre.fs, head) /\ ~exists(pre.fs, name) /\ name \in DirPaths
        THEN [fs |-> [pre.fs EXCEPT ![name] = Dir], raised |-> FALSE]
        ELSE [fs |-> pre.fs, raised |-> TRUE]

\* os.remove: raises unless the path is a regular file.
os_remove(fs, p) ==
    IF Kind(fs, p) = "file"
    THEN [fs |-> [fs EXCEPT ![p] = None], raised |-> FALSE]
    ELSE [fs |-> fs, raised |-> TRUE]

\* shutil.rmtree: removes the directory with everything below it.
rmtree(fs, p) ==
    IF Kind(fs, p) = "dir"
    THEN [fs |-> [q \in Paths |-> IF IsPrefix(p, q) THEN None ELSE fs[q]],
          raised |-> FALSE]
    ELSE [fs |-> fs, raised |-> TRUE]

\* ------------------------------------------------------------ copy_validate
\* A copy attempt is disturbed by the environment in one of three ways: not
\* at all, the copy raises before it writes, or the copy completes but the
\* bytes that arrive are not the source's (silent corruption).
NoFault      == "none"
RaiseFault   == "raise"
CorruptFault == "corrupt"
Faults       == {NoFault, RaiseFault, CorruptFault}
\* What a corrupted write of content c leaves: other bytes of the same
\* length, the corruption that size and modification time cannot show.
corrupted(c) == IF c % 2 = 1 THEN c + 1 ELSE c - 1
\* The disturbances still possible once n attempts have been disturbed.
FaultsLeft(n) == IF n < MaxFaults THEN Faults ELSE {NoFault}

\* The fault the n-th attempt on file p met in the first run of a
\* comparison; no fault when the first run made no such attempt.
Replayed(pat, p, n) == IF n <= Len(pat[p]) THEN pat[p][n] ELSE NoFault

\* The file shutil.copy2(src, dst) writes: dst itself, or the file of the
\* source's base name in dst when dst is a directory.
copy_target(rep, p) == IF isdir(rep, p) THEN join(p, basename(p)) ELSE p

\* copy2 as shutil.copy would do it: the content is written, the
\* modification time is that of the write, not the source's.
copy_without_stat(src, rep, p, fault) ==
    LET target == copy_target(rep, p)
        c      == IF fault = CorruptFault THEN corrupted(src[p].content)
                  ELSE src[p].content
    IN  IF \/ fault = RaiseFault
           \/ target \notin Paths
           \/ ~isdir(rep, Parent(target))
           \/ isdir(rep, target)
        THEN [fs |-> rep, raised |-> TRUE]
        ELSE [fs |-> [rep EXCEPT ![target] = File(c, MaxMtime)],
              raised |-> FALSE]

\* shutil.copy2(src, dst): a destination that is a directory receives the
\* file under the source's base name; the content and the modification time
\* of the source are written.
copy2(src, rep, p, fault) ==
    LET target == copy_target(rep, p)
        c      == IF fault = CorruptFault THEN corrupted(src[p].content)
                  ELSE src[p].content
    IN  IF \/ fault = RaiseFault
           \/ target \notin Paths
           \/ ~isdir(rep, Parent(target))
           \/ isdir(rep, target)
        THEN [fs |-> rep, raised |-> TRUE]
        ELSE [fs |-> [rep EXCEPT ![target] = File(c, src[p].mtime)],
              raised |-> FALSE]

max_retries == 3

\* A comparison that accepts any pair of digests.
hashes_unchecked(source_hash, replica_hash) == TRUE

\* The comparison of the two digests after the copy.
hashes_match(source_hash, replica_hash) == source_hash = replica_hash

\* The body of the try block of one iteration of copy_validate's loop:
\* copy, hash both files, compare.  Any exception counts as a failed attempt.
copy_attempt(src, rep, p, fault) ==
    LET c2 == copy2(src, rep, p, fault)
    IN  IF c2.raised THEN [fs |-> c2.fs, raised |-> TRUE, match |-> FALSE]
        ELSE IF ~can_hash(c2.fs, p)
        THEN [fs |-> c2.fs, raised |-> TRUE, match |-> FALSE]
        ELSE [fs |-> c2.fs, raised |-> FALSE,
              match |-> hashes_match(calculate_xxhash(src, p),
                                     calculate_xxhash(c2.fs, p))]

\* A loop condition that stops one attempt early.
loop_guard_strict(retry_count) == retry_count < max_retries

\* The loop condition of copy_validate.
loop_guard(retry_count) == retry_count <= max_retries

\* What one iteration leaves: "ok" (return success), "retry" (loop again)
\* or "failed" (the loop ends, return failure).
iteration_status(match, retry_count) ==
    IF match THEN "ok"
    ELSE IF loop_guard(retry_count + 1) THEN "retry" ELSE "failed"

\* ------------------------------------------------------------ modified_check
\* A check that compares the sizes only.
modified_check_size_only(src, rep, p) ==
    IF ~exists(rep, p) THEN FALSE
    ELSE IF stat(src, p).st_size # stat(rep, p).st_size
    THEN FALSE
    ELSE TRUE

\* TRUE = unchanged, FALSE = to be copied.
modified_check(src, rep, p) ==
    IF ~exists(rep, p) THEN FALSE
    ELSE IF \/ stat(src, p).st_size # stat(rep, p).st_size
            \/ stat(src, p).st_mtime # stat(rep, p).st_mtime
    THEN FALSE
    ELSE TRUE

\* A decision that never compares digests, whatever the mode.
file_decision_stat_only(src, rep, p, isStrict) ==
    IF ~modified_check(src, rep, p) THEN "copy" ELSE "skip"

\* The decision sync_directory takes for one file: "copy", "skip", or "raise"
\* when strict mode hashes a replica path that is not a regular file.
file_decision(src, rep, p, isStrict) ==
    IF isStrict
    THEN IF ~modified_check(src, rep, p) THEN "copy"
         ELSE IF ~can_hash(rep, p) THEN "raise"
         ELSE IF calculate_xxhash(src, p) # calculate_xxhash(rep, p)
         THEN "copy" ELSE "skip"
    ELSE IF ~modified_check(src, rep, p) THEN "copy" ELSE "skip"


\* ------------------------------------------------------------------- state
VARIABLES
    source,       \* the source tree
    source_root,  \* the source root can (still) be traversed
    replica,      \* the replica tree
    variant,      \* "extended" or "simple": which program runs
    multi,        \* --multi
    procnum,      \* --procnum: max_workers of the pool
    strict,       \* --strict
    now,          \* run()'s now: "0", "1" or "2"
    cpu_count,    \* multiprocessing.cpu_count() of the host
    args_now,     \* --now as typed on the command line (args.now)
    unit,         \* -u: the unit of the interval
    interval,     \* -i: the interval
    slept,        \* history: the seconds of each time.sleep call
    pair,         \* "off", or which run of a comparison of the two programs
    pattern,      \* comparison: the fault of each copy attempt, per file
    replica_start, \* comparison: the replica both runs start from
    first,        \* comparison: what the first run left
    pc,           \* where the main process is
    pass,         \* number of the current pass
    walk_left,    \* sync_directory: frames os.walk has still to yield
    files,        \* sync_directory: files of the current frame still to do
    file_tasks,   \* the task list (simple: the copy_validate calls made)
    queue,        \* pool: submitted tasks no worker has taken yet
    running,      \* task each process executes (0 = none); process 0 = main
    retry_count,  \* copy_validate's retry_count, per process
    outcome,      \* per task: "none", "ok" or "failed"
    collected,    \* number of results the main process has logged
    todo,         \* cleanup_replica: entries still to examine, in walk order
    log,          \* the records passed to log.info
    fatal,        \* the exception that ended the pass, "" if none
    attempts,     \* history: copy attempts made, per task
    matched,      \* history: first attempt whose digests were equal, per task
    started,      \* history: the processes that began each task, in order
    examined,     \* history: replica entries cleanup_replica has examined
    faults,       \* history: copy attempts disturbed so far
    replica0      \* history: the replica when cleanup_replica began

vars == << source, source_root, replica, variant, multi, procnum, strict,
           now, cpu_count, args_now, unit, interval, slept, pair, pattern,
           replica_start, first, pc, pass,
           walk_left, files, file_tasks, queue, running, retry_count,
           outcome, collected, todo, log, fatal, attempts, matched, started,
           examined, faults, replica0 >>

Procs   == 0..MaxProcnum
Workers == 1..procnum

\* What a run of a comparison left: nothing yet.
NoResult == [replica |-> <<>>, log |-> <<>>, fatal |-> "none"]

\* No pass has been made.
Fresh ==
    /\ pass = 0
    /\ walk_left = <<>>
    /\ files = <<>>
    /\ file_tasks = <<>>
    /\ queue = <<>>
    /\ running = [w \in Procs |-> 0]
    /\ retry_count = [w \in Procs |-> 0]
    /\ outcome = <<>>
    /\ collected = 0
    /\ todo = <<>>
    /\ log = <<>>
    /\ fatal = ""
    /\ attempts = <<>>
    /\ matched = <<>>
    /\ started = <<>>
    /\ examined = {}
    /\ faults = 0
    /\ replica0 = replica
    /\ slept = <<>>
    /\ pattern = [p \in Paths |-> <<>>]
    /\ first = NoResult

\* run() is entered and no pass has been made.
Entered == pc = "idle" /\ pair = "off" /\ replica_start = <<>> /\ Fresh

\* The periodic loop (now = 0) on a host with as many execution units as
\* processes are requested, over every pair of trees.
Init ==
    /\ source \in SrcTrees
    /\ source_root = TRUE
    /\ replica \in Trees(RepEntries)
    /\ variant \in {"extended", "simple"}
    /\ multi \in IF variant = "extended" THEN BOOLEAN ELSE {FALSE}
    /\ procnum = IF multi THEN MaxProcnum ELSE 1
    /\ strict \in BOOLEAN
    /\ now = "0"
    /\ cpu_count = MaxProcnum
    /\ args_now = 0 /\ unit = "m" /\ interval = 1
    /\ Entered

\* Every value of now, of --procnum and of the host's cpu_count, over a
\* replica that is empty at the start.
InitRun ==
    /\ source \in SrcTrees
    /\ source_root = TRUE
    /\ replica = [p \in Paths |-> None]
    /\ variant \in {"extended", "simple"}
    /\ multi \in IF variant = "extended" THEN BOOLEAN ELSE {FALSE}
    /\ procnum \in IF multi THEN 1..MaxProcnum ELSE {1}
    /\ strict \in BOOLEAN
    /\ now \in {"0", "1", "2"}
    /\ cpu_count \in 1..MaxProcnum
    /\ args_now = 0 /\ unit = "m" /\ interval = 1
    /\ Entered

\* A cleanup that examines the files of every frame and no subdirectory.
RECURSIVE cleanup_order_files_only(_)
cleanup_order_files_only(frames) ==
    IF frames = <<>> THEN <<>>
    ELSE LET f == Head(frames)
         IN  [i \in 1..Len(f.files) |-> [path |-> f.files[i], isdir |-> FALSE]]
             \o cleanup_order_files_only(Tail(frames))

\* The flat order in which cleanup_replica examines the entries of the
\* frames it is given: per frame the files, then the subdirectories.
RECURSIVE cleanup_order(_)
cleanup_order(frames) ==
    IF frames = <<>> THEN <<>>
    ELSE LET f == Head(frames)
         IN  [i \in 1..Len(f.files) |-> [path |-> f.files[i], isdir |-> FALSE]]
             \o [i \in 1..Len(f.dirs) |-> [path |-> f.dirs[i], isdir |-> TRUE]]
             \o cleanup_order(Tail(frames))

\* The same walk made parents first.
cleanup_walk_topdown(rep) == walk(rep, <<>>, TRUE)

\* The walk cleanup_replica makes over the replica.
cleanup_walk(rep) == walk(rep, <<>>, FALSE)

\* A planner that puts every task on the list twice.
AddTaskTwice(p) ==
    /\ file_tasks' = file_tasks \o << p, p >>
    /\ outcome' = outcome \o << "none", "none" >>
    /\ attempts' = attempts \o << 0, 0 >>
    /\ matched' = matched \o << 0, 0 >>
    /\ started' = started \o << <<>>, <<>> >>

\* A new task, with its history.
AddTask(p) ==
    /\ file_tasks' = Append(file_tasks, p)
    /\ outcome' = Append(outcome, "none")
    /\ attempts' = Append(attempts, 0)
    /\ matched' = Append(matched, 0)
    /\ started' = Append(started, <<>>)

\* The faults an attempt on task t can meet: any, while the environment's
\* budget lasts; in the second run of a comparison, the one the same attempt
\* met in the first run.
FaultChoices(t) ==
    IF pair = "second"
    THEN {Replayed(pattern, file_tasks[t], attempts[t] + 1)}
    ELSE FaultsLeft(faults)

Crash(why) ==
    /\ pc' = "crashed"
    /\ fatal' = why

\* os.walk over the source.  When the root cannot be listed os.walk swallows
\* the error of scandir (its onerror is None) and yields nothing.
source_walk == IF source_root THEN walk(source, <<>>, TRUE) ELSE <<>>
\* A test that also wants the source entry to be of the replica entry's kind.
source_exists_same_kind(p) ==
    source_root /\ exists(source, p) /\ Kind(source, p) = Kind(replica, p)

\* os.path.exists of a path under the source root.
source_exists(p) == source_root /\ exists(source, p)

min(a, b) == IF a <= b THEN a ELSE b

\* A Python value that is a str, and one that is a tuple of str.
Str(x) == [type |-> "str", val |-> x]
Tuple(t) == [type |-> "tuple", val |-> t]

\* a == b and a in t of Python: values of different types are never equal.
py_eq(a, b) == a.type = b.type /\ a.val = b.val
py_in(a, t) == \E i \in 1..Len(t.val) : py_eq(a, Str(t.val[i]))

\* What unit_conv returns for a unit; Exit when it prints its message and
\* calls sys.exit(0).  The simple program knows three units and names them
\* differently.
Exit == "sys.exit"
unit_conv(v, u) ==
    IF py_in(Str(u), Tuple(<<"minutes", "m">>))
    THEN IF v = "extended" THEN "MINUTE" ELSE "MINUTES"
    ELSE IF py_eq(Str(u), Tuple(<<"hours", "h">>))
    THEN IF v = "extended" THEN "HOURLY" ELSE "HOURS"
    ELSE IF py_eq(Str(u), Tuple(<<"days", "d">>))
    THEN IF v = "extended" THEN "DAILY" ELSE "DAYS"
    ELSE IF v = "extended" /\ py_eq(Str(u), Tuple(<<"weeks", "w">>))
    THEN "WEEKLY"
    ELSE IF v = "extended" /\ py_eq(Str(u), Tuple(<<"months", "mo">>))
    THEN "MONTHLY"
    ELSE Exit

\* The time.sleep calls one turn of run()'s loop makes, in seconds, for the
\* value r that unit_conv returned.
sleep_calls(v, r, i) ==
    IF v = "extended"
    THEN (IF r = "MINUTE" THEN << i * 60 >> ELSE <<>>)
         \o (IF r = "HOURLY" THEN << i * 3600 >>
             ELSE IF r = "DAILY" THEN << i * 86400 >> ELSE <<>>)
    ELSE (IF r = "MINUTES" THEN << i * 60 >> ELSE <<>>)
         \o (IF r = "HOURS" THEN << i * 3600 >> ELSE <<>>)
         \o (IF r = "DAYS" THEN << i * 86400 >> ELSE <<>>)

\* The next call of synchronization() is the one run() makes at once for
\* now = 1 or 2, before its loop.
immediate_pass == pass = 0 /\ now \in {"1", "2"}

\* The next call is made in a turn of the loop that has slept: in the simple
\* program every turn sleeps and then synchronizes; in the extended program
\* every turn synchronizes and then sleeps, so that its first turn (the
\* first call of all, or the second when now = 1) follows no sleep.
loop_sleeps ==
    /\ ~immediate_pass
    /\ variant = "extended" => pass > (IF now = "1" THEN 1 ELSE 0)

\* That turn ends the program instead: unit_conv rejects the unit.
loop_exits == loop_sleeps /\ unit_conv(variant, unit) = Exit

\* run() calls synchronization(), which sets up the logger and enters
\* sync_directory.  With now = 1 or 2 the first call is made at once, with
\* procnum as it was given, and with now = 2 run() exits after it; every
\* other call is a turn of the loop, which run() enters after it has set
\* procnum to min(procnum, cpu_count).
StartPass ==
    /\ pc \in {"idle", "done"}
    /\ pass < MaxPasses
    /\ now = "2" => pass = 0
    /\ pair # "off" => pass = 0
    /\ IF loop_exits
       THEN /\ pc' = "exited"
            /\ UNCHANGED << procnum, pass, walk_left, files, file_tasks,
                            outcome, attempts, matched, started, collected,
                            examined, replica0, slept >>
       ELSE /\ slept' = IF loop_sleeps
                        THEN slept \o sleep_calls(variant,
                                                  unit_conv(variant, unit),
                                                  interval)
                        ELSE slept
            /\ procnum' = IF immediate_pass
                          THEN procnum
                          ELSE min(procnum, cpu_count)
            /\ pass' = pass + 1
            /\ pc' = "walk"
            /\ walk_left' = source_walk
            /\ files' = <<>>
            /\ file_tasks' = <<>>
            /\ outcome' = <<>>
            /\ attempts' = <<>>
            /\ matched' = <<>>
            /\ started' = <<>>
            /\ collected' = 0
            /\ examined' = {}
            /\ replica0' = replica
    /\ UNCHANGED << faults, source, source_root, replica, variant, multi,
                    strict, now, cpu_count, queue, running, retry_count,
                    todo, log, fatal, args_now, unit, interval,
                    pair, pattern, replica_start, first >>

\* A step that also puts a directory in the place of a regular file.
ensure_dir_replacing(rep, replica_root) ==
    IF ~exists(rep, replica_root) THEN makedirs(rep, replica_root)
    ELSE IF Kind(rep, replica_root) = "file" /\ replica_root \in DirPaths
    THEN [fs |-> [rep EXCEPT ![replica_root] = Dir], raised |-> FALSE]
    ELSE [fs |-> rep, raised |-> FALSE]

\* "Ensure the directory exists in the replica": os.makedirs when nothing
\* exists at the mirrored path.
ensure_dir(rep, replica_root) ==
    IF ~exists(rep, replica_root) THEN makedirs(rep, replica_root)
    ELSE [fs |-> rep, raised |-> FALSE]

\* sync_directory: os.walk yields the next source directory; its mirror is
\* created when nothing exists at the mirrored path.
SyncDirectoryVisit ==
    /\ pc = "walk"
    /\ walk_left # <<>>
    /\ LET frame == Head(walk_left)
           replica_root == frame.root
           made == ensure_dir(replica, replica_root)
       IN  /\ replica' = made.fs
           /\ IF made.raised
              THEN /\ Crash("makedirs")
                   /\ UNCHANGED << walk_left, files >>
              ELSE /\ walk_left' = Tail(walk_left)
                   /\ files' = frame.files
                   /\ pc' = IF frame.files = <<>> THEN "walk" ELSE "files"
                   /\ fatal' = fatal
    /\ UNCHANGED << faults, source, source_root, variant, multi, procnum,
                    strict, now, cpu_count, pass, file_tasks, queue, running,
                    retry_count, outcome, collected, todo, log, attempts,
                    matched, started, examined, replica0,
                    args_now, unit, interval, slept,
                    pair, pattern, replica_start, first >>

\* sync_directory: one file of the current directory is checked.  The
\* extended variant appends a task; the simple variant calls copy_validate.
SyncDirectoryFile ==
    /\ pc = "files"
    /\ LET p == Head(files)
           d == file_decision(source, replica, p, strict)
           rest == IF Tail(files) = <<>> THEN "walk" ELSE "files"
       IN  CASE d = "raise" ->
                  /\ Crash("hash")
                  /\ UNCHANGED << files, file_tasks, outcome, attempts,
                                  matched, started, running >>
             [] d = "skip" ->
                  /\ files' = Tail(files)
                  /\ pc' = rest
                  /\ UNCHANGED << fatal, file_tasks, outcome, attempts,
                                  matched, started, running >>
             [] d = "copy" /\ variant = "extended" ->
                  /\ AddTask(p)
                  /\ files' = Tail(files)
                  /\ pc' = rest
                  /\ UNCHANGED << fatal, running >>
             [] d = "copy" /\ variant = "simple" ->
                  /\ AddTask(p)
                  /\ running' = [running EXCEPT ![0] = Len(file_tasks) + 1]
                  /\ pc' = "copy"
                  /\ UNCHANGED << fatal, files >>
    /\ UNCHANGED << faults, source, source_root, replica, variant, multi,
                    procnum, strict, now, cpu_count, pass, walk_left, queue,
                    retry_count, collected, todo, log, examined, replica0,
                    args_now, unit, interval, slept,
                    pair, pattern, replica_start, first >>

\* The record log.info receives for a task's result.
ResultRecord(t, st) == [pass |-> pass, kind |-> st, path |-> file_tasks[t]]

\* An iteration that moves the file: the source file is gone once the copy
\* is found equal.
AttemptMoving(w, t, fault) ==
    LET p  == file_tasks[t]
        a  == copy_attempt(source, replica, p, fault)
        st == iteration_status(a.match, retry_count[w])
        equal == /\ ~a.raised
                 /\ calculate_xxhash(source, p) = calculate_xxhash(a.fs, p)
    IN  /\ replica' = a.fs
        /\ attempts' = [attempts EXCEPT ![t] = @ + 1]
        /\ matched' = IF equal /\ matched[t] = 0
                      THEN [matched EXCEPT ![t] = attempts[t] + 1]
                      ELSE matched
        /\ retry_count' = [retry_count EXCEPT
                              ![w] = IF st = "retry" THEN @ + 1 ELSE 0]
        /\ outcome' = IF st = "retry" THEN outcome
                      ELSE [outcome EXCEPT ![t] = st]
        /\ faults' = IF fault = NoFault THEN faults ELSE faults + 1
        /\ pattern' = IF pair = "first"
                      THEN [pattern EXCEPT ![p] = Append(@, fault)]
                      ELSE pattern
        /\ source' = IF a.match THEN [source EXCEPT ![p] = None] ELSE source

\* One iteration of copy_validate's loop, run by process w on task t.  The
\* source file is opened for reading only, by copy2 and by calculate_xxhash.
Attempt(w, t, fault) ==
    LET p  == file_tasks[t]
        a  == copy_attempt(source, replica, p, fault)
        st == iteration_status(a.match, retry_count[w])
        equal == /\ ~a.raised
                 /\ calculate_xxhash(source, p) = calculate_xxhash(a.fs, p)
    IN  /\ replica' = a.fs
        /\ attempts' = [attempts EXCEPT ![t] = @ + 1]
        /\ matched' = IF equal /\ matched[t] = 0
                      THEN [matched EXCEPT ![t] = attempts[t] + 1]
                      ELSE matched
        /\ retry_count' = [retry_count EXCEPT
                              ![w] = IF st = "retry" THEN @ + 1 ELSE 0]
        /\ outcome' = IF st = "retry" THEN outcome
                      ELSE [outcome EXCEPT ![t] = st]
        /\ faults' = IF fault = NoFault THEN faults ELSE faults + 1
        /\ pattern' = IF pair = "first"
                      THEN [pattern EXCEPT ![p] = Append(@, fault)]
                      ELSE pattern
        /\ source' = source

\* The status the iteration of process w on task t ends with.
AttemptStatus(w, t, fault) ==
    iteration_status(copy_attempt(source, replica, file_tasks[t], fault).match,
                     retry_count[w])

\* Simple variant: an iteration of the copy_validate called from within
\* sync_directory; its return value is logged and the walk goes on.
CopyInline ==
    /\ pc = "copy"
    /\ LET t == running[0]
       IN  \E fault \in FaultChoices(t) :
             /\ Attempt(0, t, fault)
             /\ started' = IF attempts[t] = 0
                            THEN [started EXCEPT ![t] = Append(@, 0)]
                            ELSE started
             /\ IF AttemptStatus(0, t, fault) = "retry"
                THEN UNCHANGED << pc, files, running, log, collected >>
                ELSE /\ log' = Append(log,
                                 ResultRecord(t, AttemptStatus(0, t, fault)))
                     /\ collected' = collected + 1
                     /\ running' = [running EXCEPT ![0] = 0]
                     /\ files' = Tail(files)
                     /\ pc' = IF Tail(files) = <<>> THEN "walk" ELSE "files"
    /\ UNCHANGED << source_root, variant, multi, procnum, strict,
                    now, cpu_count, pass, walk_left, file_tasks, queue, todo,
                    fatal, examined, replica0,
                    args_now, unit, interval, slept,
                    pair, replica_start, first >>

\* A submission that hands every task to the pool twice.
submit_twice(tasks) ==
    [i \in 1..Len(tasks) |-> i] \o [i \in 1..Len(tasks) |-> i]

\* The tasks submitted to the pool, in submission order.
submit_all(tasks) == [i \in 1..Len(tasks) |-> i]

\* sync_directory returns.  Extended: synchronization() goes on to the copy
\* loop, submitting every task when a pool is used.  Simple:
\* synchronization() goes on to cleanup_replica.
SyncDirectoryReturn ==
    /\ pc = "walk"
    /\ walk_left = <<>>
    /\ IF variant = "extended"
       THEN /\ pc' = "exec"
            /\ queue' = IF multi THEN submit_all(file_tasks) ELSE <<>>
            /\ UNCHANGED << todo, replica0 >>
       ELSE /\ pc' = "cleanup"
            /\ todo' = cleanup_order(cleanup_walk(replica))
            /\ replica0' = replica
            /\ UNCHANGED queue
    /\ UNCHANGED << faults, source, source_root, replica, variant, multi,
                    procnum, strict, now, cpu_count, pass, walk_left, files,
                    file_tasks, running, retry_count, outcome, collected,
                    log, fatal, attempts, matched, started, examined,
                    args_now, unit, interval, slept,
                    pair, pattern, replica_start, first >>

\* Extended, sequential: an iteration of copy_validate for the next task of
\* the for loop; the value it returns is logged.
SeqAttempt ==
    /\ pc = "exec"
    /\ ~multi
    /\ collected < Len(file_tasks)
    /\ LET t == collected + 1
       IN  \E fault \in FaultChoices(t) :
             /\ Attempt(0, t, fault)
             /\ started' = IF attempts[t] = 0
                            THEN [started EXCEPT ![t] = Append(@, 0)]
                            ELSE started
             /\ IF AttemptStatus(0, t, fault) = "retry"
                THEN UNCHANGED << log, collected >>
                ELSE /\ log' = Append(log,
                                 ResultRecord(t, AttemptStatus(0, t, fault)))
                     /\ collected' = collected + 1
    /\ UNCHANGED << source_root, variant, multi, procnum, strict,
                    now, cpu_count, pc, pass, walk_left, files, file_tasks,
                    queue, running, todo, fatal, examined, replica0,
                    args_now, unit, interval, slept,
                    pair, replica_start, first >>

\* Pool: an idle worker takes the oldest submitted task.  The workers are
\* interchangeable, so it is the idle worker with the smallest number.
WorkerTake(w) ==
    /\ pc = "exec"
    /\ multi
    /\ running[w] = 0
    /\ \A v \in Workers : v < w => running[v] # 0
    /\ queue # <<>>
    /\ running' = [running EXCEPT ![w] = Head(queue)]
    /\ queue' = Tail(queue)
    /\ started' = [started EXCEPT ![Head(queue)] = Append(@, w)]
    /\ UNCHANGED << faults, source, source_root, replica, variant, multi,
                    procnum, strict, now, cpu_count, pc, pass, walk_left,
                    files, file_tasks, retry_count, outcome, collected, todo,
                    log, fatal, attempts, matched, examined, replica0,
                    args_now, unit, interval, slept,
                    pair, pattern, replica_start, first >>

\* Pool: a worker runs one iteration of copy_validate for its task; when
\* copy_validate returns, the result becomes the future's result.
WorkerAttempt(w) ==
    /\ pc = "exec"
    /\ multi
    /\ running[w] # 0
    /\ LET t == running[w]
       IN  \E fault \in FaultChoices(t) :
             /\ Attempt(w, t, fault)
             /\ running' = IF AttemptStatus(w, t, fault) = "retry"
                           THEN running
                           ELSE [running EXCEPT ![w] = 0]
    /\ UNCHANGED << source_root, variant, multi, procnum, strict,
                    now, cpu_count, pc, pass, walk_left, files, file_tasks,
                    queue, collected, todo, log, fatal, started, examined,
                    replica0,
                    args_now, unit, interval, slept,
                    pair, replica_start, first >>

\* Pool: the main process obtains future.result() of the next future, in
\* submission order, and logs it.
Collect ==
    /\ pc = "exec"
    /\ multi
    /\ collected < Len(file_tasks)
    /\ outcome[collected + 1] # "none"
    /\ log' = Append(log, ResultRecord(collected + 1, outcome[collected + 1]))
    /\ collected' = collected + 1
    /\ UNCHANGED << faults, source, source_root, replica, variant, multi,
                    procnum, strict, now, cpu_count, pc, pass, walk_left,
                    files, file_tasks, queue, running, retry_count, outcome,
                    todo, fatal, attempts, matched, started, examined,
                    replica0,
                    args_now, unit, interval, slept,
                    pair, pattern, replica_start, first >>

\* A copy loop that is also left as soon as a task has failed.
loop_done_on_failure ==
    \/ collected = Len(file_tasks)
    \/ \E t \in 1..Len(file_tasks) : outcome[t] = "failed"

\* A copy loop that is left without waiting for any result.
loop_done_unawaited == TRUE

\* The condition under which synchronization() leaves the copy loop.
loop_done == collected = Len(file_tasks)

\* Extended: the copy loop is over (and the pool shut down);
\* cleanup_replica starts its walk.
CleanupStart ==
    /\ pc = "exec"
    /\ loop_done
    /\ pc' = "cleanup"
    /\ todo' = cleanup_order(cleanup_walk(replica))
    /\ replica0' = replica
    /\ UNCHANGED << faults, source, source_root, replica, variant, multi,
                    procnum, strict, now, cpu_count, pass, walk_left, files,
                    file_tasks, queue, running, retry_count, outcome,
                    collected, log, fatal, attempts, matched, started,
                    examined,
                    args_now, unit, interval, slept,
                    pair, pattern, replica_start, first >>

\* A removal record that names the directory walked, not the entry removed.
RemovalRecordOfRoot(e) ==
    [pass |-> pass,
     kind |-> IF e.isdir THEN "dir_removed" ELSE "file_removed",
     path |-> Parent(e.path)]

\* The record log.info receives for a removal.
RemovalRecord(e) ==
    [pass |-> pass,
     kind |-> IF e.isdir THEN "dir_removed" ELSE "file_removed",
     path |-> e.path]

\* The ways the environment disturbs a deletion: not at all, or os.remove /
\* shutil.rmtree raises (no permission, entry in use).
DeleteFaults == {NoFault, RaiseFault}

\* A comparison of the two programs is made where no deletion fails.
DeleteChoices == IF pair = "off" THEN DeleteFaults ELSE {NoFault}

\* cleanup_replica: the next entry is examined; it is removed, and the
\* removal logged, when nothing exists at its path in the source.  Nothing
\* catches the exception of a deletion that fails: it leaves cleanup_replica
\* and synchronization().
CleanupEntry ==
    /\ pc = "cleanup"
    /\ todo # <<>>
    /\ \E fault \in DeleteChoices :
         LET e == Head(todo)
             r == IF fault = RaiseFault
                  THEN [fs |-> replica, raised |-> TRUE]
                  ELSE IF e.isdir THEN rmtree(replica, e.path)
                  ELSE os_remove(replica, e.path)
         IN  /\ examined' = examined \cup {e.path}
             /\ IF source_exists(e.path)
                THEN /\ todo' = Tail(todo)
                     /\ UNCHANGED << replica, log, pc, fatal >>
                ELSE IF r.raised
                THEN /\ Crash("remove")
                     /\ UNCHANGED << replica, log, todo >>
                ELSE /\ replica' = r.fs
                     /\ log' = Append(log, RemovalRecord(e))
                     /\ todo' = Tail(todo)
                     /\ UNCHANGED << pc, fatal >>
    /\ UNCHANGED << faults, source, source_root, variant, multi, procnum,
                    strict, now, cpu_count, pass, walk_left, files,
                    file_tasks, queue, running, retry_count, outcome,
                    collected, attempts, matched, started, replica0,
                    args_now, unit, interval, slept,
                    pair, pattern, replica_start, first >>

\* cleanup_replica returns, and synchronization() with it.
CleanupReturn ==
    /\ pc = "cleanup"
    /\ todo = <<>>
    /\ pc' = "done"
    /\ UNCHANGED << faults, source, source_root, replica, variant, multi,
                    procnum, strict, now, cpu_count, pass, walk_left, files,
                    file_tasks, queue, running, retry_count, outcome,
                    collected, todo, log, fatal, attempts, matched, started,
                    examined, replica0,
                    args_now, unit, interval, slept,
                    pair, pattern, replica_start, first >>

Next ==
    \/ StartPass
    \/ SyncDirectoryVisit
    \/ SyncDirectoryFile
    \/ CopyInline
    \/ SyncDirectoryReturn
    \/ SeqAttempt
    \/ \E w \in Workers : WorkerTake(w)
    \/ \E w \in Workers : WorkerAttempt(w)
    \/ Collect
    \/ CleanupStart
    \/ CleanupEntry
    \/ CleanupReturn

Spec == Init /\ [][Next]_vars

\* The steps of the main process, and those of worker w of the pool.
MainStep ==
    \/ StartPass
    \/ SyncDirectoryVisit
    \/ SyncDirectoryFile
    \/ CopyInline
    \/ SyncDirectoryReturn
    \/ SeqAttempt
    \/ Collect
    \/ CleanupStart
    \/ CleanupEntry
    \/ CleanupReturn
WorkerStep(w) == w \in Workers /\ (WorkerTake(w) \/ WorkerAttempt(w))

\* The programs when every process is scheduled fairly: the main process
\* goes on while it has a statement to execute, and so does every worker
\* process of the pool, each run by the operating system on its own.
SpecFair ==
    /\ Init /\ [][Next]_vars
    /\ WF_vars(MainStep)
    /\ \A w \in Procs \ {0} : WF_vars(WorkerStep(w))

\* Between two passes (run() sleeps, or has not made its first pass yet) the
\* source root becomes inaccessible: removed, unmounted, access withdrawn.
SourceRootLost ==
    /\ pc \in {"idle", "done"}
    /\ source_root
    /\ source_root' = FALSE
    /\ pc' = "idle"
    /\ UNCHANGED << source, replica, variant, multi, procnum, strict, now,
                    cpu_count, pass, walk_left, files, file_tasks, queue,
                    running, retry_count, outcome, collected, todo, log,
                    fatal, attempts, matched, started, examined, faults,
                    replica0,
                    args_now, unit, interval, slept,
                    pair, pattern, replica_start, first >>

NextRoot == Next \/ SourceRootLost

\* The programs in an environment where the source root can be lost.
SpecRoot == Init /\ [][NextRoot]_vars

\* The programs under every now flag, process count and host.
SpecRun == InitRun /\ [][Next]_vars

\* A comparison of the two programs: the simple program makes one pass from
\* a source, a replica and a strict flag.
InitPair ==
    /\ source \in SrcTrees
    /\ source_root = TRUE
    /\ replica \in Trees(RepEntries)
    /\ variant = "simple"
    /\ multi = FALSE
    /\ procnum = 1
    /\ strict \in BOOLEAN
    /\ now = "2"
    /\ cpu_count = MaxProcnum
    /\ args_now = 0 /\ unit = "m" /\ interval = 1
    /\ pc = "idle"
    /\ pair = "first" /\ replica_start = replica
    /\ Fresh

\* The pass of the simple program has ended, by its return or by an
\* exception.  What it left is kept, and the extended program without
\* --multi is started on the same source, the same replica and the same
\* strict flag, to meet the same faults.
SecondRun ==
    /\ pair = "first"
    /\ pass = 1
    /\ pc \in {"done", "crashed"}
    /\ first' = [replica |-> replica, log |-> log, fatal |-> fatal]
    /\ pair' = "second"
    /\ variant' = "extended"
    /\ replica' = replica_start
    /\ replica0' = replica_start
    /\ pc' = "idle"
    /\ pass' = 0
    /\ walk_left' = <<>>
    /\ files' = <<>>
    /\ file_tasks' = <<>>
    /\ running' = [w \in Procs |-> 0]
    /\ retry_count' = [w \in Procs |-> 0]
    /\ outcome' = <<>>
    /\ collected' = 0
    /\ todo' = <<>>
    /\ log' = <<>>
    /\ fatal' = ""
    /\ attempts' = <<>>
    /\ matched' = <<>>
    /\ started' = <<>>
    /\ examined' = {}
    /\ faults' = 0
    /\ UNCHANGED << source, source_root, multi, procnum, strict, now,
                    cpu_count, queue, args_now, unit, interval, slept,
                    pattern, replica_start >>

NextPair ==
    \/ StartPass
    \/ SyncDirectoryVisit
    \/ SyncDirectoryFile
    \/ CopyInline
    \/ SyncDirectoryReturn
    \/ SeqAttempt
    \/ CleanupStart
    \/ CleanupEntry
    \/ CleanupReturn
    \/ SecondRun

\* One pass of the simple program, then one pass of the extended program
\* without --multi from the same start.
SpecPair == InitPair /\ [][NextPair]_vars

\* The units typed after -u, and str.casefold on them.
CmdUnits == {"Minutes", "m", "Hours", "h", "days", "d", "weeks", "w",
             "months", "mo", "s"}
casefold(u) ==
    CASE u = "Minutes" -> "minutes"
      [] u = "Hours" -> "hours"
      [] OTHER -> u

\* The now that main() hands to run() when the program is started from the
\* command line: its own parameter now, which the call main() of the last
\* line leaves at its default "0".  args.now is parsed and never read.
main_now(args) == "0"

\* The program is started from the command line with -s, -r and any of -u,
\* -i, --now, --strict, --multi; main() has not run yet.
InitMain ==
    /\ source \in SrcTrees
    /\ source_root = TRUE
    /\ replica = [p \in Paths |-> None]
    /\ variant \in {"extended", "simple"}
    /\ multi \in IF variant = "extended" THEN BOOLEAN ELSE {FALSE}
    /\ procnum = IF multi THEN MaxProcnum ELSE 1
    /\ strict \in BOOLEAN
    /\ now = "0"
    /\ cpu_count = MaxProcnum
    /\ args_now \in 0..2
    /\ unit \in CmdUnits
    /\ interval \in 1..MaxInterval
    /\ pc = "main"
    /\ pair = "off" /\ replica_start = <<>>
    /\ Fresh

\* main() on the command-line path: validate_inputs, whose unit_conv call
\* ends the program for a unit it rejects, then run() with the casefolded
\* unit and main()'s now.
Main ==
    /\ pc = "main"
    /\ IF unit_conv(variant, casefold(unit)) = Exit
       THEN pc' = "exited" /\ UNCHANGED << unit, now >>
       ELSE /\ pc' = "idle"
            /\ unit' = casefold(unit)
            /\ now' = main_now(args_now)
    /\ UNCHANGED << source, source_root, replica, variant, multi, procnum,
                    strict, cpu_count, pass, walk_left, files, file_tasks,
                    queue, running, retry_count, outcome, collected, todo,
                    log, fatal, attempts, matched, started, examined, faults,
                    replica0, args_now, interval, slept,
                    pair, pattern, replica_start, first >>

NextMain == Main \/ Next

\* The programs as started from the command line.
SpecMain == InitMain /\ [][NextMain]_vars

TypeOK ==
    /\ WellFormed(source) /\ WellFormed(replica)
    /\ pc \in {"idle", "walk", "files", "copy", "exec", "cleanup", "done",
               "crashed", "main", "exited"}
    /\ Len(outcome) = Len(file_tasks)
    /\ \A t \in 1..Len(file_tasks) : attempts[t] <= max_retries + 1

\* ------------------------------------------------------------------ claims
Tasks == 1..Len(file_tasks)
IsRemoval(r) == r.kind \in {"file_removed", "dir_removed"}
\* Indexes of the records logged in the current pass.
PassLog == {i \in 1..Len(log) : log[i].pass = pass}
RemovalsOf(p) == {i \in PassLog : IsRemoval(log[i]) /\ log[i].path = p}
NoFailure == \A t \in Tasks : outcome[t] # "failed"

\* C1: after a pass in which no task ended as failed-after-retries, every
\* source file has a byte-identical file at the mirrored replica path and
\* every replica file has a source file, whatever the replica was before.
C1_Convergence ==
    (pc = "done" /\ NoFailure) =>
        /\ \A p \in Paths : source[p].kind = "file" =>
              /\ replica[p].kind = "file"
              /\ replica[p].content = source[p].content
        /\ \A p \in Paths : replica[p].kind = "file" => source[p].kind = "file"

\* Records of the pass before the current one that report a failed task.
FailedBefore == {i \in 1..Len(log) : log[i].pass = pass - 1 /\ log[i].kind = "failed"}
\* The current pass planned no copy and removed nothing.
NothingToDo ==
    /\ file_tasks = <<>>
    /\ \A i \in PassLog : ~IsRemoval(log[i])

\* C2 (as stated): a second pass over an unchanged source plans no copy task
\* and performs no removal, in strict and in non-strict mode.
C2_Original == (pc = "done" /\ pass >= 2) => NothingToDo

\* C2 (amended): a pass that follows, over an unchanged source, a pass in
\* which no task ended as failed-after-retries plans no copy task and
\* performs no removal, in strict and in non-strict mode.
C2_Idempotence ==
    (pc = "done" /\ pass >= 2 /\ FailedBefore = {}) => NothingToDo

\* A second pass with nothing to do after a first pass that copied a file
\* and removed an entry.
C2_Witness ==
    /\ pc = "done" /\ pass = 2 /\ NothingToDo
    /\ \E i \in 1..Len(log) : log[i].pass = 1 /\ log[i].kind = "ok"
    /\ \E i \in 1..Len(log) : log[i].pass = 1 /\ IsRemoval(log[i])
    /\ \A i \in 1..Len(log) : log[i].kind # "failed"

\* sync_directory has not returned yet.
Planning == pc \in {"walk", "files", "copy"}
\* Some copy attempt has been made in the current pass.
CopyBegun == \E t \in Tasks : attempts[t] > 0
\* cleanup_replica has removed something in the current pass.
RemovalBegun == \E i \in PassLog : IsRemoval(log[i])
AllOutcomes == \A t \in Tasks : outcome[t] # "none"

\* No reconcile deletion begins before every copy task has its outcome.
ExecuteBeforeReconcile == (RemovalBegun \/ examined # {}) => AllOutcomes /\ ~Planning
\* No copy attempt begins before the whole task list is planned.
PlanBeforeExecute == Planning => ~CopyBegun

C4_RetryBound ==
    \A t \in Tasks :
        /\ attempts[t] <= 4
        /\ outcome[t] = "failed" => attempts[t] = 4 /\ matched[t] = 0
        /\ (matched[t] = 0 /\ attempts[t] = 4) => outcome[t] = "failed"
        /\ (matched[t] = 0 /\ attempts[t] < 4) => outcome[t] = "none"
        /\ matched[t] # 0 => attempts[t] = matched[t] /\ outcome[t] = "ok"

\* One task failed after 4 attempts, another succeeded at its second.
C4_Witness ==
    \E t, u \in Tasks :
        /\ outcome[t] = "failed" /\ attempts[t] = 4
        /\ outcome[u] = "ok" /\ attempts[u] = 2

\* C5: a task is reported as succeeded only if the digests of source and
\* destination were equal after the copy of its last attempt; the destination
\* then holds the source's content.
C5_SuccessMeansEqual ==
    \A t \in Tasks : outcome[t] = "ok" =>
        /\ matched[t] # 0
        /\ replica[file_tasks[t]].kind = "file"
        /\ xxh64(replica[file_tasks[t]].content) = xxh64(source[file_tasks[t]].content)

\* A task that succeeded after an attempt that wrote corrupted bytes.
C5_Witness ==
    \E t \in Tasks : outcome[t] = "ok" /\ matched[t] > 1

\* C6: a task that ends as failed-after-retries does not end the pass: when
\* the pass moves on to reconcile every task of the pass has an outcome, and
\* when it returns reconcile has examined every replica entry.
C6_FailureDoesNotHalt ==
    (\E t \in Tasks : outcome[t] = "failed") =>
        /\ pc \in {"cleanup", "done"} =>
              \A u \in Tasks : outcome[u] # "none" /\ attempts[u] >= 1
        /\ pc = "done" => \A p \in Paths : exists(replica0, p) => p \in examined

\* The first task failed, the second succeeded, reconcile has run.
C6_Witness ==
    /\ pc = "done" /\ Len(file_tasks) = 2
    /\ outcome[1] = "failed" /\ outcome[2] = "ok"
    /\ examined # {}

\* C7: with a pool every task is begun by exactly one worker, once: never by
\* two, never twice, and none is left out when the copy phase is over.
C7_ExactlyOnce ==
    multi =>
        /\ \A t \in Tasks : Len(started[t]) <= 1
        /\ \A t \in Tasks : outcome[t] # "none" => Len(started[t]) = 1
        /\ \A w, v \in Workers : (w # v /\ running[w] # 0) => running[w] # running[v]
        /\ pc \in {"cleanup", "done"} =>
              \A t \in Tasks : Len(started[t]) = 1 /\ attempts[t] >= 1

\* The second task finished on its worker before the first did.
C7_Witness ==
    /\ multi /\ pc = "exec" /\ Len(file_tasks) = 2
    /\ outcome[1] = "none" /\ outcome[2] # "none"
    /\ started[1] = <<1>> /\ started[2] = <<2>>

\* C8: when the pass returns, every task's outcome and every removal made by
\* reconcile has been passed to the logger exactly once, and nothing else.
C8_AllLogged ==
    pc = "done" =>
        /\ \A t \in Tasks :
              Cardinality({i \in PassLog : /\ log[i].path = file_tasks[t]
                                           /\ log[i].kind = outcome[t]}) = 1
        /\ \A t \in Tasks : outcome[t] \in {"ok", "failed"}
        /\ \A p \in Paths : (exists(replica0, p) /\ ~exists(replica, p)) =>
              Cardinality(RemovalsOf(p)) = 1
        /\ Cardinality(PassLog) =
              Len(file_tasks)
              + Cardinality({p \in Paths : exists(replica0, p) /\ ~exists(replica, p)})

\* A pass that logged a success, a failure and a removal.
C8_Witness ==
    /\ pc = "done"
    /\ \E i \in PassLog : log[i].kind = "ok"
    /\ \E i \in PassLog : log[i].kind = "failed"
    /\ \E i \in PassLog : IsRemoval(log[i])

ProperDescendant(p, q) == IsPrefix(p, q) /\ p # q

\* C9: reconcile works bottom-up: an entry is removed before any directory
\* above it, and when a directory is removed every entry that was below it
\* has been examined; so for a stale a/b/b the file a/b/b is removed before
\* the directory a/b, and a/b before a.
C9_BottomUp ==
    /\ \A i, j \in PassLog :
          (IsRemoval(log[i]) /\ IsRemoval(log[j])
              /\ ProperDescendant(log[i].path, log[j].path)) => j < i
    /\ \A i \in PassLog : log[i].kind = "dir_removed" =>
          \A q \in Paths :
              (ProperDescendant(log[i].path, q) /\ exists(replica0, q)) =>
                  q \in examined
    /\ (pc = "done" /\ ~exists(source, <<"a">>)
           /\ replica0[<<"a", "b", "b">>].kind = "file") =>
          \E i, j, k \in PassLog :
              /\ i < j /\ j < k
              /\ log[i] = [pass |-> pass, kind |-> "file_removed", path |-> <<"a", "b", "b">>]
              /\ log[j] = [pass |-> pass, kind |-> "dir_removed", path |-> <<"a", "b">>]
              /\ log[k] = [pass |-> pass, kind |-> "dir_removed", path |-> <<"a">>]

\* The stale chain a/b/b has been removed.
C9_Witness ==
    /\ pc = "done" /\ ~exists(source, <<"a">>)
    /\ replica0[<<"a", "b", "b">>].kind = "file"
    /\ ~exists(replica, <<"a">>)

\* C10: when cleanup_replica returns, every replica file and every replica
\* subdirectory that had no path under the source root is deleted, with
\* exactly one removal event of its kind; nothing else has a removal event.
C10_StaleRemoved ==
    pc = "done" =>
        \A p \in Paths :
            IF exists(replica0, p) /\ ~exists(source, p)
            THEN /\ ~exists(replica, p)
                 /\ Cardinality(RemovalsOf(p)) = 1
                 /\ \A i \in RemovalsOf(p) :
                       log[i].kind = IF replica0[p].kind = "dir"
                                     THEN "dir_removed" ELSE "file_removed"
            ELSE RemovalsOf(p) = {}

\* A stale directory holding a stale file was removed next to a kept file.
C10_Witness ==
    /\ pc = "done"
    /\ replica0[<<"a", "b">>].kind = "dir" /\ replica0[<<"a", "b", "b">>].kind = "file"
    /\ exists(source, <<"a", "a">>) /\ ~exists(source, <<"a", "b">>)
    /\ replica[<<"a", "a">>].kind = "file" /\ ~exists(replica, <<"a", "b">>)

\* A deletion failed and ended the pass; the entry it failed on is the one
\* cleanup_replica was examining.
DeletionFailed == pc = "crashed" /\ fatal = "remove"
\* Replica entries, at the start of reconcile, with nothing at their path in
\* the source.
Stale == {p \in Paths : exists(replica0, p) /\ ~exists(source, p)}

\* C11: a deletion that fails does not end the reconcile walk: the pass is
\* not over before every other stale entry has been examined and removed.
C11_DeletionFailureIsolated ==
    DeletionFailed =>
        \A p \in Stale \ {Head(todo).path} :
            p \in examined /\ ~exists(replica, p)

\* The current pass began after the source root was lost.
PassWithoutRoot == ~source_root /\ pc # "idle"

\* C12: a pass that cannot traverse the source root ends in a fatal error:
\* it does not return as a completed pass and removes nothing from the
\* replica, as it would for an empty source.
C12_RootFailureIsFatal ==
    PassWithoutRoot =>
        /\ pc = "done" => fatal # ""
        /\ \A p \in Paths : exists(replica0, p) => exists(replica, p)

\* The step plans a copy task for source file p / plans nothing.
Planned(p) == file_tasks' = Append(file_tasks, p)
NothingPlanned == file_tasks' = file_tasks
\* Size or modification time of source file p and of the replica entry at
\* its mirrored path differ.
StatDiffers(p) ==
    \/ stat(source, p).st_size # stat(replica, p).st_size
    \/ stat(source, p).st_mtime # stat(replica, p).st_mtime

\* C13: in non-strict mode the planner, for each source file it comes to,
\* plans a copy task when nothing exists at the mirrored replica path, and
\* when an entry exists there it plans a copy task if and only if the sizes
\* or the modification times differ; otherwise it plans nothing.
C13_NonStrictDetection ==
    [][(pc = "files" /\ ~strict) =>
          LET p == Head(files)
          IN  /\ ~exists(replica, p) => Planned(p)
              /\ exists(replica, p) => (Planned(p) <=> StatDiffers(p))
              /\ Planned(p) \/ NothingPlanned]_vars

\* A non-strict plan holding a/a, whose replica differs in modification time
\* only, and not a/b, whose replica has the size and time of the source.
C13_Witness ==
    /\ ~strict /\ pc = "exec" /\ file_tasks = << <<"a", "a">> >>
    /\ replica0[<<"a", "a">>] = File(SrcContent(<<"a", "a">>), MaxMtime)
    /\ source[<<"a", "b">>].kind = "file"
    /\ replica0[<<"a", "b">>] = source[<<"a", "b">>]

\* The replica holds, for source file p, a file of the same size and
\* modification time and of another content.
SilentlyChanged(rep, p) ==
    /\ rep[p].kind = "file"
    /\ stat(source, p) = stat(rep, p)
    /\ rep[p].content # source[p].content

\* C14: for a source file whose replica file has the same size and
\* modification time and another content, the planner plans no copy task in
\* non-strict mode and plans a copy task in strict mode.
C14_StrictSuperiority ==
    [][(pc = "files" /\ SilentlyChanged(replica, Head(files))) =>
          IF strict THEN Planned(Head(files)) ELSE NothingPlanned]_vars

\* A strict plan that holds the silently changed a/a.
C14_Witness ==
    /\ strict /\ pc = "exec" /\ file_tasks = << <<"a", "a">> >>
    /\ SilentlyChanged(replica0, <<"a", "a">>)

\* C15: whenever change detection is about to be made for a file of a source
\* directory, and whenever a planned copy is made or still to be made, the
\* mirrored replica path of that directory exists and is a directory,
\* whatever the replica was at the start.
C15_DirectoryMirror ==
    /\ pc = "files" => isdir(replica, Parent(Head(files)))
    /\ pc \in {"copy", "exec"} =>
          \A t \in Tasks : outcome[t] = "none" =>
              isdir(replica, Parent(file_tasks[t]))

\* Since the pass began the replica has changed by new directories only.
OnlyDirectoriesCreated ==
    \A p \in Paths : replica[p] = replica0[p]
                         \/ (replica0[p] = None /\ replica[p] = Dir)
\* Since the pass began no replica entry has been deleted.
NothingDeleted == \A p \in Paths : exists(replica0, p) => exists(replica, p)

C17_DistinctDestinations ==
    /\ \A t, u \in Tasks : t # u => file_tasks[t] # file_tasks[u]
    /\ \A w, v \in Workers :
          (w # v /\ running[w] # 0 /\ running[v] # 0) =>
              copy_target(replica, file_tasks[running[w]])
                  # copy_target(replica, file_tasks[running[v]])

\* Two workers are each in the middle of the retries of their task.
C17_Witness ==
    /\ multi /\ running[1] # 0 /\ running[2] # 0
    /\ attempts[running[1]] > 0 /\ attempts[running[2]] > 0

\* Number of copy_validate calls the pool's workers are making.
Executing == Cardinality({w \in Procs \ {0} : running[w] # 0})

\* C18: in every pass the number of copy tasks executing at the same time
\* exceeds neither the process count (procnum only ever decreases from the
\* requested value) nor the host's cpu_count.
C18_PoolBounded ==
    /\ Executing <= procnum
    /\ Executing <= cpu_count

\* C19: no step of any pass changes the source tree: its entries, their
\* content, size and modification time stay what they were, whatever fails.
C19_SourceUntouched == [][source' = source]_vars

\* Two passes are over; a copy failed, a copy succeeded and an entry was
\* removed on the way.
C19_Witness ==
    /\ pc = "done" /\ pass = 2
    /\ \E i \in 1..Len(log) : log[i].kind = "failed"
    /\ \E i \in 1..Len(log) : log[i].kind = "ok"
    /\ \E i \in 1..Len(log) : IsRemoval(log[i])

\* C20: a pass that has started runs to completion, whatever copy errors and
\* digest mismatches occur: cleanup_replica returns (unless a deletion
\* failed, which the claim does not speak of).
C20_PassCompletes == (pc = "walk") ~> (pc = "done" \/ DeletionFailed)

\* C21: --now of the command line controls the first pass: with 1 and with 2
\* the first synchronization is made at once, without a sleep before it,
\* and with 0 it is not; with 2 no second synchronization is made.
C21_NowControlsFirstPass ==
    /\ pass = 1 => (slept = <<>> <=> args_now \in {1, 2})
    /\ args_now = 2 => pass <= 1

\* The spellings the help text of -u documents, per program.
DocumentedUnits ==
    IF variant = "extended"
    THEN {"minutes", "m", "hours", "h", "days", "d", "weeks", "w",
          "months", "mo"}
    ELSE {"minutes", "m", "hours", "h", "days", "d"}

\* The seconds in one of a documented unit.
UnitSeconds(u) ==
    IF u \in {"minutes", "m"} THEN 60
    ELSE IF u \in {"hours", "h"} THEN 3600
    ELSE 86400

\* C22: unit_conv ends the program only for a unit outside the documented
\* spellings, and every sleep of the loop lasts interval times the seconds
\* of the unit.
C22_UnitsAccepted ==
    /\ pc = "exited" => casefold(unit) \notin DocumentedUnits
    /\ \A i \in 1..Len(slept) : slept[i] = interval * UnitSeconds(unit)

\* The copy of source file p ended as failed-after-retries in the pass before
\* this one, and the replica holds at p a file of another content.
FailedAndDifferent(p) ==
    /\ \E i \in FailedBefore : log[i].path = p
    /\ replica[p].kind = "file"
    /\ replica[p].content # source[p].content

\* C23: a file whose copy failed after its retries, leaving a replica file
\* that is not identical to the source file, is planned again by the next
\* pass, in non-strict mode as well as in strict mode.
C23_FailedCopyRetried ==
    [][(pc = "files" /\ FailedAndDifferent(Head(files))) =>
          Planned(Head(files))]_vars

\* C24: cleanup_replica deletes a replica entry if and only if nothing of any
\* kind exists at its path in the source: while it runs and when it has
\* returned, every entry whose source path exists is as it was, whatever
\* the kinds of the two, and every examined entry whose source path does
\* not exist is gone.
C24_DeleteIffNoSource ==
    pc \in {"cleanup", "done"} =>
        \A p \in Paths :
            exists(replica0, p) =>
                IF exists(source, p)
                THEN replica[p] = replica0[p]
                ELSE p \in examined => ~exists(replica, p)

\* cleanup_replica has returned: it kept the replica directory a, whose
\* source path is a regular file, and removed the entry a/a below it.
C24_Witness ==
    /\ pc = "done"
    /\ source[<<"a">>].kind = "file"
    /\ replica0[<<"a">>].kind = "dir" /\ replica[<<"a">>].kind = "dir"
    /\ exists(replica0, <<"a", "a">>) /\ ~exists(replica, <<"a", "a">>)
    /\ <<"a">> \in examined

\* The results and removals a pass logged.
Events(l) == {[kind |-> l[i].kind, path |-> l[i].path] : i \in 1..Len(l)}

\* Both passes of a comparison have ended.
BothEnded == pair = "second" /\ pass = 1 /\ pc \in {"done", "crashed"}

\* C25: one pass of the simple program and one pass of the extended program
\* without --multi, from the same source, replica and strict flag and under
\* the same copy faults, leave the same replica and make the same copies
\* and removals.
C25_VariantsEquivalent ==
    BothEnded => /\ replica = first.replica
                 /\ Events(log) = Events(first.log)

====
